---- MODULE Spec2Model ----
(***************************************************************************)
(* Model of the reachability and identity-tracking engine of               *)
(* src/windows/agent.py: ping_ip (probe with retries and output guards),   *)
(* scan_network_for_mac (thread-pool sweep of a /24) and the camera loop   *)
(* of run_once (identity cache and its persistence in agent_state.json).   *)
(***************************************************************************)
EXTENDS Integers, Sequences, FiniteSets, TLC

(***************************************************************************)
(* Bounds of the model.                                                    *)
(***************************************************************************)
\* longest ping output, in lines
MaxLines == 2
\* output[-500:] keeps the end of the text; here the last TailLen lines
TailLen == 1
\* largest value of the retry parameter of ping_ip
MaxRetry == 3
\* range(1, 255): the host suffixes of a /24, here 1..MaxSuffix
MaxSuffix == 3
\* ThreadPoolExecutor(max_workers=20), here MaxWorkers threads
MaxWorkers == 2
\* the clock of a scan stops at MaxScanClock
MaxScanClock == 2
\* main's loop calls run_once again while the clock is at most MaxClock
MaxClock == 3

\* Python's None for Optional[float]
NoneNum == -1


(***************************************************************************)
(* State of one call of ping_ip.                                           *)
(***************************************************************************)
VARIABLES
    p_is_windows,   \* platform.system() starts with "win"
    p_retry,        \* the retry parameter
    p_pc,           \* "idle", "loop", "sleep", "done"
    attempt,        \* the loop variable
    last_error,
    p_ret,          \* the value returned
    p_last,         \* history: what the last attempt met
    p_reach,        \* history: the verdict of the last attempt
    p_failed,       \* history: attempts that did not return
    p_events,       \* history: "run_ok", "run_fail" and "sleep", in order
    p_forced        \* history: the places in p_events of the attempts whose
                    \* process exited with 0 and that were judged unreachable

pvars == << p_is_windows, p_retry, p_pc, attempt, last_error, p_ret, p_last,
            p_reach, p_failed, p_events, p_forced >>

(***************************************************************************)
(* State of run_once from its second _load_state (line 830) to the save of *)
(* the MAC cache (line 937), over the cycles of main's loop.               *)
(***************************************************************************)
VARIABLES
    store,                \* the document in agent_state.json
    state,                \* the dict _load_state returned
    cameras,              \* the roster built at lines 788-796
    mac_tracking_enabled, \* AGENT_MAC_TRACKING
    speed_enabled,
    mac_cache,
    mac_cache_updated,
    cam_reports,
    c_pc,                 \* "idle", "load", "speedtest", "probe", "resolve",
                          \* "scan", "reprobe", "emit", "save", "done", and
                          \* "raised" when an exception leaves run_once
    idx,                  \* position of c in cameras
    ip, reachable, avg_ms, loss, suspicious, mac_address, ip_changed, new_ip,
    now,                  \* time.time(), in probes made so far
    c_cache0,             \* history: mac_cache at line 855 of this cycle
    c_sighted,            \* history: the devices with a reachable probe and a
                          \* MAC resolved in this cycle
    c_changed,            \* history: an entry of mac_cache was written
    c_saves,              \* history: calls of _save_state at line 937
    c_trace               \* history: for each camera evaluated in this cycle,
                          \* what its evaluation did

cvars == << store, state, cameras, mac_tracking_enabled, speed_enabled,
            mac_cache, mac_cache_updated, cam_reports, c_pc, idx, ip, reachable,
            avg_ms, loss, suspicious, mac_address, ip_changed, new_ip, now,
            c_cache0, c_sighted, c_changed, c_saves, c_trace >>

(***************************************************************************)
(* State of one call of scan_network_for_mac.                              *)
(***************************************************************************)
VARIABLES
    s_mac,          \* the mac parameter
    s_timeout_sec,  \* the timeout_sec parameter
    s_arp,          \* what get_mac_address returns for each suffix, if asked
    s_elapsed,      \* time.time() - start_time
    futures,        \* suffix -> "pending", "running", "finished", "cancelled"
    s_result,       \* suffix -> the result of its future
    s_queue,        \* the suffix of the next work item of the executor
    s_yielded,      \* the futures as_completed has yielded
    s_pc,           \* the caller: "idle", "collect", "cancel", "shutdown",
                    \* "done"
    s_cancel,       \* the suffix of the next future of "for f in futures"
    s_ret,          \* the value returned
    s_resolved,     \* history: suffixes get_mac_address was called for
    s_late          \* history: suffixes whose resolution ended after
                    \* timeout_sec had elapsed

svars == << s_mac, s_timeout_sec, s_arp, s_elapsed, futures, s_result, s_queue,
            s_yielded, s_pc, s_cancel, s_ret, s_resolved, s_late >>

(***************************************************************************)
(* State of one call of get_mac_address.                                   *)
(***************************************************************************)
VARIABLES
    g_pc,           \* "idle", "prime", "arp", "parse", "done"
    g_ping,         \* what the ping command of the priming probe met
    g_primed,       \* what the priming probe returned
    g_arp,          \* what the arp command met
    g_asked,        \* history: the arp command was run
    g_ret           \* what leaves the call

gvars == << g_pc, g_ping, g_primed, g_arp, g_asked, g_ret >>

vars == << pvars, cvars, svars, gvars >>

(***************************************************************************)
(* Text.  The output of a command is a sequence of lines; a line is the    *)
(* kind of text it holds (which substrings and regular expressions of the  *)
(* parser it matches) and the number it carries.                           *)
(*   reply        "Reply from 10.0.0.5: bytes=32 time=4ms TTL=64"          *)
(*   timeout      "Request timed out."                                     *)
(*   lost         "Packets: Sent = 4, Received = r, Lost = l (v% loss),"   *)
(*   average      "Minimum = vms, Maximum = 9ms, Average = 5ms"            *)
(*   bytes_from   "64 bytes from 10.0.0.5: icmp_seq=1 ttl=64 time=0.4 ms"  *)
(*   rtt          "rtt min/avg/max/mdev = 0.3/v/0.5/0.0 ms"                *)
(*   packet_loss  "4 packets transmitted, r received, v% packet loss"      *)
(***************************************************************************)
Line(k, v) == [k |-> k, v |-> v]

\* the lines a ping of the platform prints
PingLines(is_windows) ==
    IF is_windows
    THEN { Line("reply", 4), Line("timeout", 0), Line("lost", 0), Line("lost", 100),
           Line("average", 4) }
    ELSE { Line("bytes_from", 0), Line("rtt", 4), Line("packet_loss", 0),
           Line("packet_loss", 100) }

SeqsUpTo(S, n) == UNION { [1..m -> S] : m \in 0..n }

PingOutputs(is_windows) == SeqsUpTo(PingLines(is_windows), MaxLines)

\* None for a text, kept apart from every text a command can print
NoneText == << Line("None", 0) >>
\* f"ping error: {e}"
PingError == << Line("ping error", 0) >>
\* "ping failed after retries"
PingFailed == << Line("ping failed after retries", 0) >>

\* a Python text used as a condition: None and "" are false
Truthy(t) == t # NoneText /\ t # << >>

\* output[-500:]
output_tail(output) ==
    IF Len(output) > TailLen
    THEN SubSeq(output, Len(output) - TailLen + 1, Len(output))
    ELSE output

(***************************************************************************)
(* One run of the ping command: subprocess.run raised (exc), or it ended   *)
(* with return code rc and printed out.                                    *)
(***************************************************************************)
Raised == [exc |-> TRUE, rc |-> 1, out |-> << >>]
Ran(rc, out) == [exc |-> FALSE, rc |-> rc, out |-> out]

AttemptOutcomes(is_windows) ==
    {Raised} \cup { Ran(rc, out) : rc \in {0, 1}, out \in PingOutputs(is_windows) }

\* the number carried by the last line of the given kind, None without one:
\* each loop over output.splitlines() overwrites its variable on every match
LastMatch(output, kind) ==
    LET I == { i \in 1..Len(output) : output[i].k = kind }
    IN  IF I = {} THEN NoneNum
        ELSE output[CHOOSE i \in I : \A j \in I : j <= i].v

parse_avg_ms(is_windows, output) ==
    IF is_windows THEN LastMatch(output, "average")
    ELSE LastMatch(output, "rtt")

parse_loss_pct(is_windows, output) ==
    IF is_windows THEN LastMatch(output, "lost")
    ELSE LastMatch(output, "packet_loss")

\* any(re.search(pattern, output) for pattern in success_patterns)
has_success(output) ==
    \E i \in 1..Len(output) : output[i].k \in {"reply", "bytes_from"}

\* variant: the 100% loss test left out
loss_guard_off(r, loss_pct) == r

\* returncode = 0 but 100% loss: offline
loss_guard(r, loss_pct) ==
    IF r /\ loss_pct # NoneNum /\ loss_pct >= 100 THEN FALSE ELSE r

\* variant: the reply-evidence test left out
evidence_guard_off(r, avg, output) == r

\* returncode = 0, no latency extracted and no line of a successful reply
evidence_guard(r, avg, output) ==
    IF r /\ avg = NoneNum /\ ~has_success(output) THEN FALSE ELSE r

\* the verdict of one attempt whose command ran
judge(is_windows, oc) ==
    LET avg == parse_avg_ms(is_windows, oc.out)
        loss_pct == parse_loss_pct(is_windows, oc.out)
        r0 == (oc.rc = 0)
        r1 == loss_guard(r0, loss_pct)
        r2 == evidence_guard(r1, avg, oc.out)
    IN  [reachable |-> r2, avg_ms |-> avg, loss_pct |-> loss_pct]

PingResult(r, avg, loss_pct, raw_tail) ==
    [reachable |-> r, avg_ms |-> avg, loss_pct |-> loss_pct,
     raw_tail |-> raw_tail]

\* no value returned yet
NoResult == PingResult(FALSE, NoneNum, NoneNum, NoneText)

\* variant: last_error is not set by a failed attempt
body_keeps_last_error(is_windows, oc, err) ==
    IF oc.exc
    THEN [returned |-> FALSE, ret |-> NoResult, last_error |-> err]
    ELSE LET j == judge(is_windows, oc)
         IN  IF j.reachable
             THEN [returned |-> TRUE,
                   ret |-> PingResult(TRUE, j.avg_ms, j.loss_pct, output_tail(oc.out)),
                   last_error |-> err]
             ELSE [returned |-> FALSE, ret |-> NoResult, last_error |-> err]

\* variant: the verdict of an attempt whose process exited with 0 is
\* returned at once, reachable or not
body_returns_verdict(is_windows, oc, err) ==
    IF oc.exc
    THEN [returned |-> FALSE, ret |-> NoResult, last_error |-> PingError]
    ELSE LET j == judge(is_windows, oc)
         IN  IF j.reachable \/ oc.rc = 0
             THEN [returned |-> TRUE,
                   ret |-> PingResult(j.reachable, j.avg_ms, j.loss_pct,
                                      output_tail(oc.out)),
                   last_error |-> err]
             ELSE [returned |-> FALSE, ret |-> NoResult, last_error |-> output_tail(oc.out)]

\* the body of the retry loop for one attempt
ping_body(is_windows, oc, err) ==
    IF oc.exc
    THEN [returned |-> FALSE, ret |-> NoResult, last_error |-> PingError]
    ELSE LET j == judge(is_windows, oc)
         IN  IF j.reachable
             THEN [returned |-> TRUE,
                   ret |-> PingResult(TRUE, j.avg_ms, j.loss_pct, output_tail(oc.out)),
                   last_error |-> err]
             ELSE [returned |-> FALSE, ret |-> NoResult, last_error |-> output_tail(oc.out)]

\* variant: the sleep also follows the last attempt
backoff_always(n, retry) == n < retry

\* if attempt < retry - 1: time.sleep(0.1)
needs_backoff(n, retry) == n < retry - 1

\* return False, None, None, last_error or "ping failed after retries"
failure_return(err) ==
    PingResult(FALSE, NoneNum, NoneNum,
               IF Truthy(err) THEN err ELSE PingFailed)

RECURSIVE ping_loop(_, _, _, _, _)
ping_loop(is_windows, ocs, retry, n, err) ==
    IF n >= retry THEN failure_return(err)
    ELSE LET b == ping_body(is_windows, ocs[n + 1], err)
         IN  IF b.returned THEN b.ret
             ELSE ping_loop(is_windows, ocs, retry, n + 1, b.last_error)

\* ping_ip as a function of what its attempts meet
ping_ip(is_windows, ocs, retry) == ping_loop(is_windows, ocs, retry, 0, NoneText)

(***************************************************************************)
(* run_once: the roster, the MAC cache and agent_state.json.               *)
(***************************************************************************)
\* a missing name (None)
NoName == ""
\* None for an address
NoIp == << >>
\* None for a MAC
NoMac == << >>

\* a MAC as get_mac_address returns it: the characters of AA:BB:CC:DD:EE:FF
MacA == << "A", "A", ":", "B", "B", ":", "C", "C", ":", "D", "D", ":",
           "E", "E", ":", "F", "F" >>
MacB == << "0", "0", ":", "1", "1", ":", "2", "2", ":", "3", "3", ":",
           "4", "4", ":", "5", "5" >>
Macs == {MacA, MacB}

\* the address "10.0.0.h" as ip.split(".") sees it
Addr(h) == << 10, 0, 0, h >>

\* the cameras of the server's configuration: {id, name, ip}
Dev1 == [id |-> "d1", name |-> "cam1", ip |-> Addr(1)]
SecondDevices == { [id |-> "d2", name |-> n, ip |-> Addr(2)] : n \in {"cam1", "cam2", NoName} }
Rosters == { << Dev1 >> } \cup { << Dev1, d >> : d \in SecondDevices }

\* cameras.append({"name": c.get("name"), "ip": c.get("ip")})
build_cameras(conf) ==
    [i \in 1..Len(conf) |-> [name |-> conf[i].name, ip |-> conf[i].ip]]

\* str(cam_id), with cam_id = c.get("id") or name or ip; a name is its own
\* text, an address is printed
cam_id(c) ==
    IF "id" \in DOMAIN c /\ c.id # NoName THEN c.id
    ELSE IF c.name # NoName THEN c.name
    ELSE ToString(c.ip)

EmptyDict == [x \in {} |-> 0]

\* d[k] = v
Put(d, k, v) == [x \in DOMAIN d \cup {k} |-> IF x = k THEN v ELSE d[x]]

\* d.get(k, default)
Get(d, k, default) == IF k \in DOMAIN d THEN d[k] ELSE default

\* the entry of a key, if it has one
Entry(cache, k) == IF k \in DOMAIN cache THEN {cache[k]} ELSE {}

\* _load_state: the document, or {} when the file cannot be read or parsed
load_state(doc, readable) == IF readable THEN doc ELSE EmptyDict

\* _save_state: the file is rewritten with the dict, or left alone when the
\* write raises
save_state(doc, dict, writable) == IF writable THEN dict ELSE doc

\* agent_state.json after load_or_create_agent_id, without and with the
\* result of an earlier speedtest
InitialStores ==
    { [k \in {"agent_id", "hostname"} |-> IF k = "agent_id" THEN "a1" ELSE "h1"],
      [k \in {"agent_id", "hostname", "last_speedtest_at", "last_speedtest"} |->
          CASE k = "agent_id" -> "a1"
            [] k = "hostname" -> "h1"
            [] k = "last_speedtest_at" -> 0
            [] OTHER -> "st0"] }

CacheEntry(mac, addr, t) == [mac |-> mac, last_ip |-> addr, last_seen |-> t]

\* variant: a MAC resolved is not written to the cache
sighting_unrecorded(cache, updated, key, mac, addr, t) ==
    [cache |-> cache, updated |-> updated]

\* lines 883-889: the entry is written when the camera has none or its MAC
\* differs
record_sighting(cache, updated, key, mac, addr, t) ==
    IF key \notin DOMAIN cache \/ cache[key].mac # mac
    THEN [cache |-> Put(cache, key, CacheEntry(mac, addr, t)), updated |-> TRUE]
    ELSE [cache |-> cache, updated |-> updated]

\* variant: a relocation writes a whole new entry, without the MAC
relocation_forgets_mac(cache, updated, key, addr, t) ==
    [cache |-> Put(cache, key, CacheEntry(NoMac, addr, t)), updated |-> TRUE]

\* variant: mac_cache_updated is not set on a relocation
relocation_unflagged(cache, updated, key, addr, t) ==
    [cache |-> [cache EXCEPT ![key].last_ip = addr, ![key].last_seen = t],
     updated |-> updated]

\* lines 915-917: the entry follows the camera to its new address
record_relocation(cache, updated, key, addr, t) ==
    [cache |-> [cache EXCEPT ![key].last_ip = addr, ![key].last_seen = t],
     updated |-> TRUE]

\* variant: a silent camera is scanned for, with or without a cached MAC
scan_without_mac(tracking, first, cache, key, addr) == tracking /\ ~first

\* lines 893-897: the camera is silent, the cache has a MAC for it and its
\* address has four parts
wants_scan(tracking, first, cache, key, addr) ==
    /\ tracking
    /\ ~first
    /\ key \in DOMAIN cache
    /\ cache[key].mac # NoMac
    /\ Len(addr) = 4

\* variant: whatever address the scan found is probed
reprobe_any_found(found, roster_ip) == found # NoIp

\* line 907: if new_ip and new_ip != ip
wants_reprobe(found, roster_ip) == found # NoIp /\ found # roster_ip

\* what scan_network_for_mac returns: None or an address of the /24
ScanResults(network_prefix) ==
    {NoIp} \cup { network_prefix \o << suffix >> : suffix \in 1..MaxSuffix }

\* what the attempts of a probe of a camera meet
CycleOutcomes(is_windows) ==
    IF is_windows
    THEN { Raised,
           Ran(1, << Line("timeout", 0) >>),
           Ran(0, << Line("reply", 4), Line("average", 4) >>),
           Ran(0, << Line("lost", 100) >>) }
    ELSE { Raised,
           Ran(1, << Line("packet_loss", 100) >>),
           Ran(0, << Line("bytes_from", 0), Line("rtt", 4) >>),
           Ran(0, << Line("packet_loss", 0) >>) }
CycleAttempts(is_windows) == [1..2 -> CycleOutcomes(is_windows)]

\* history of the evaluation of one camera, as it stands after the first
\* probe
Evaluation(first, before, errors) ==
    [first |-> first,        \* the first probe was reachable
     errors |-> errors,      \* calls that ended on a command that raised
     before |-> before,      \* the entry of the camera before the evaluation
     resolves |-> 0,         \* calls of get_mac_address
     scans |-> 0,            \* calls of scan_network_for_mac
     reprobes |-> 0,         \* probes of an address the scan found
     found |-> NoIp,         \* what the scan returned
     second |-> FALSE]       \* the probe of that address was reachable

\* ip.startswith(("192.168.", "10.", "172."))
is_local(addr) ==
    Len(addr) >= 2 /\ (addr[1] \in {10, 172} \/ (addr[1] = 192 /\ addr[2] = 168))

\* variant: old_ip is sent whether or not the address changed
report_with_old_ip(c) ==
    [name |-> c.name, ip |-> ip, status |-> IF reachable THEN "up" ELSE "down",
     latency_ms |-> avg_ms, packet_loss |-> loss, suspicious |-> suspicious,
     mac_address |-> mac_address, ip_changed |-> ip_changed,
     old_ip |-> c.ip]

\* lines 922-932
Report(c) ==
    [name |-> c.name, ip |-> ip, status |-> IF reachable THEN "up" ELSE "down",
     latency_ms |-> avg_ms, packet_loss |-> loss, suspicious |-> suspicious,
     mac_address |-> mac_address, ip_changed |-> ip_changed,
     old_ip |-> IF ip_changed THEN c.ip ELSE NoIp]

(***************************************************************************)
(* scan_network_for_mac.                                                   *)
(***************************************************************************)
\* "aa-bb-cc-dd-ee-ff": MacA as another tool prints it
MacALowerHyphen == << "a", "a", "-", "b", "b", "-", "c", "c", "-", "d", "d", "-",
                      "e", "e", "-", "f", "f" >>

\* str.upper on one character
upper_char(ch) ==
    CASE ch = "a" -> "A" [] ch = "b" -> "B" [] ch = "c" -> "C"
      [] ch = "d" -> "D" [] ch = "e" -> "E" [] ch = "f" -> "F"
      [] OTHER -> ch

\* mac.upper()
upper(text) == [i \in 1..Len(text) |-> upper_char(text[i])]

\* mac.replace("-", ":")
replace_hyphens(text) == [i \in 1..Len(text) |-> IF text[i] = "-" THEN ":" ELSE text[i]]

\* variant: the MAC looked for is compared as given
normalize_nothing(target) == target

\* line 219: mac_normalized = mac.upper().replace("-", ":")
mac_normalized(target) == replace_hyphens(upper(target))

\* network_prefix, "10.0.0."
ScanPrefix == << 10, 0, 0 >>

\* ip = f"{network_prefix}{suffix}"
ScanIp(suffix) == ScanPrefix \o << suffix >>

Suffixes == 1..MaxSuffix

\* variant: the deadline test with >= for >
deadline_inclusive(elapsed, timeout_sec) == elapsed >= timeout_sec

\* variant: the deadline is never tested
deadline_ignored(elapsed, timeout_sec) == FALSE

\* line 226: time.time() - start_time > timeout_sec
past_deadline(elapsed, timeout_sec) == elapsed > timeout_sec

\* variant: any MAC found counts as the one looked for
check_ip_any_mac(target, suffix, found_mac) ==
    IF found_mac # NoMac THEN ScanIp(suffix) ELSE NoIp

\* lines 229-236: what check_ip returns once get_mac_address has returned
check_ip_result(target, suffix, found_mac) ==
    IF found_mac # NoMac /\ upper(found_mac) = mac_normalized(target)
    THEN ScanIp(suffix)
    ELSE NoIp

(***************************************************************************)
(* get_mac_address.  The output of the arp command is a sequence of        *)
(* characters.                                                             *)
(***************************************************************************)
\* [0-9A-Fa-f]
HexDigits == { "0", "1", "2", "3", "4", "5", "6", "7", "8", "9",
               "A", "B", "C", "D", "E", "F", "a", "b", "c", "d", "e", "f" }
\* [:-]
Separators == { ":", "-" }

\* pieces of the text arp prints
MacALowerColon == replace_hyphens(MacALowerHyphen)
MacABare == << "a", "a", "b", "b", "c", "c", "d", "d", "e", "e", "f", "f" >>
MacBBare == << "0", "0", "1", "1", "2", "2", "3", "3", "4", "4", "5", "5" >>
MacAMixed == << "a", "a", ":", "b", "b", "-", "c", "c", ":", "d", "d", "-",
                "e", "e", ":", "f", "f" >>
IpText == << "1", "0", ".", "0", ".", "0", ".", "5" >>
Gap == << " " >>
NoEntry == << "n", "o", " ", "e", "n", "t", "r", "y" >>

\* texts without a hardware address: nothing, and "10.0.0.5 no entry"
ArpErrorTexts == { << >>, IpText \o Gap \o NoEntry }

\* stdout + stderr of "arp -a ip" or "arp -n ip"
ArpTexts ==
    ArpErrorTexts \cup
    { IpText \o Gap \o MacALowerHyphen \o Gap,
      IpText \o Gap \o MacALowerColon,
      MacB,
      MacABare,
      MacAMixed,
      << "0" >> \o MacABare,
      MacBBare \o Gap \o MacALowerColon,
      MacB \o Gap \o MacALowerHyphen,
      SubSeq(MacALowerColon, 1, 14) }

\* one run of the arp command: subprocess.run raised (command missing,
\* timeout), or it ended with return code rc and printed out; a run that
\* ends with an error prints no hardware address
ArpOutcomes ==
    {Raised} \cup { Ran(0, out) : out \in ArpTexts }
             \cup { Ran(1, out) : out \in ArpErrorTexts }

\* the pattern ([0-9A-Fa-f]{2}[:-]){5}([0-9A-Fa-f]{2}) matches at position i
separated_at(text, i) ==
    /\ i + 16 <= Len(text)
    /\ \A k \in 0..16 : IF k % 3 = 2 THEN text[i + k] \in Separators
                        ELSE text[i + k] \in HexDigits

\* the pattern ([0-9A-Fa-f]{12}) matches at position i
bare_at(text, i) ==
    /\ i + 11 <= Len(text)
    /\ \A k \in 0..11 : text[i + k] \in HexDigits

\* variant: the bare pattern is tried before the one with separators
patterns_bare_first == << "bare", "separated" >>

\* mac_patterns, in the order of the list
mac_patterns == << "separated", "bare" >>

pattern_at(pattern, text, i) ==
    IF pattern = "separated" THEN separated_at(text, i) ELSE bare_at(text, i)

pattern_len(pattern) == IF pattern = "separated" THEN 17 ELSE 12

\* re.search(pattern, output).group(0): the leftmost match, None without one
re_search(pattern, text) ==
    LET I == { i \in 1..Len(text) : pattern_at(pattern, text, i) }
    IN  IF I = {} THEN NoMac
        ELSE LET first == CHOOSE i \in I : \A j \in I : i <= j
             IN  SubSeq(text, first, first + pattern_len(pattern) - 1)

\* ":".join([mac[i:i+2] for i in range(0, 12, 2)])
join_pairs(mac) ==
    [i \in 1..17 |-> IF i % 3 = 0 THEN ":" ELSE mac[i - (i \div 3)]]

\* variant: the twelve digits are returned as they are
normalize_without_join(matched) == upper(replace_hyphens(matched))

\* lines 189-195: the text matched, in the form AA:BB:CC:DD:EE:FF
normalize_match(matched) ==
    LET mac == replace_hyphens(matched)
    IN  upper(IF Len(mac) = 12 THEN join_pairs(mac) ELSE mac)

\* lines 186-197: the first pattern of the list that matches decides
RECURSIVE parse_mac(_, _)
parse_mac(text, n) ==
    IF n > Len(mac_patterns) THEN NoMac
    ELSE LET matched == re_search(mac_patterns[n], text)
         IN  IF matched # NoMac THEN normalize_match(matched)
             ELSE parse_mac(text, n + 1)

\* what leaves a call: a value returned, or an exception
Returned(value) == [raised |-> FALSE, value |-> value]
Escaped == [raised |-> TRUE, value |-> NoMac]

\* variant: no except clause around the arp command
arp_uncaught(oc) ==
    IF oc.exc THEN Escaped ELSE Returned(parse_mac(oc.out, 1))

\* lines 169-201, after the priming ping: the arp command, the search, and
\* the except clause that turns every exception into None
arp_lookup(oc) ==
    IF oc.exc THEN Returned(NoMac) ELSE Returned(parse_mac(oc.out, 1))

\* variant: an exception of the ping command leaves ping_ip
attempt_uncaught(oc) == oc.exc

\* lines 77 and 148: "except Exception" catches whatever an attempt of
\* ping_ip raises, so no exception leaves ping_ip
attempt_escapes(oc) == FALSE

\* variant: no try around the body of get_mac_address
get_mac_address_unguarded(is_windows, ping_oc, arp_oc) ==
    IF arp_oc.exc THEN Escaped ELSE Returned(parse_mac(arp_oc.out, 1))

\* get_mac_address as a function of what its two commands meet; what the
\* priming ping returns is not looked at (line 167)
get_mac_address(is_windows, ping_oc, arp_oc) ==
    LET primed == ping_ip(is_windows, << ping_oc >>, 1)
    IN  arp_lookup(arp_oc)

\* the commands get_mac_address meets for a camera
CycleArpOutcomes ==
    { Raised, Ran(1, NoEntry), Ran(0, MacALowerHyphen), Ran(0, MacB) }

\* the commands its priming probe meets
PrimingOutcomes(is_windows) ==
    { Raised, Ran(0, IF is_windows THEN << Line("reply", 4) >>
                     ELSE << Line("bytes_from", 0) >>) }

\* the calls of ping_ip(ip, count=2, timeout_ms=1500, retry=2) a cycle can
\* make, with what each returns
CycleProbes ==
    UNION { { [is_windows |-> w, ret |-> ping_ip(w, ocs, 2)] :
                  ocs \in CycleAttempts(w) } :
            w \in BOOLEAN }

\* the calls of get_mac_address a cycle can make: what each returns, and
\* whether its arp command failed to run
CycleResolutions ==
    UNION { { [is_windows |-> w, ret |-> get_mac_address(w, ping_oc, arp_oc),
               exc |-> arp_oc.exc] :
                  ping_oc \in PrimingOutcomes(w), arp_oc \in CycleArpOutcomes } :
            w \in BOOLEAN }

ProbeIdle ==
    /\ p_retry = 0
    /\ p_pc = "idle"
    /\ attempt = 0
    /\ last_error = NoneText
    /\ p_ret = NoResult
    /\ p_last = Raised
    /\ p_reach = FALSE
    /\ p_failed = 0
    /\ p_events = << >>
    /\ p_forced = {}

CycleIdle ==
    /\ store = EmptyDict
    /\ state = EmptyDict
    /\ cameras = << >>
    /\ mac_tracking_enabled = FALSE
    /\ speed_enabled = FALSE
    /\ mac_cache = EmptyDict
    /\ mac_cache_updated = FALSE
    /\ cam_reports = << >>
    /\ c_pc = "idle"
    /\ idx = 1
    /\ ip = NoIp
    /\ reachable = FALSE
    /\ avg_ms = NoneNum
    /\ loss = NoneNum
    /\ suspicious = FALSE
    /\ mac_address = NoMac
    /\ ip_changed = FALSE
    /\ new_ip = NoIp
    /\ now = 0
    /\ c_cache0 = EmptyDict
    /\ c_sighted = {}
    /\ c_changed = FALSE
    /\ c_saves = 0
    /\ c_trace = << >>

ResolveIdle ==
    /\ g_pc = "idle"
    /\ g_ping = Raised
    /\ g_primed = NoResult
    /\ g_arp = Raised
    /\ g_asked = FALSE
    /\ g_ret = Returned(NoMac)

ScanIdle ==
    /\ s_mac = NoMac
    /\ s_timeout_sec = 0
    /\ s_arp = << >>
    /\ s_elapsed = 0
    /\ futures = << >>
    /\ s_result = << >>
    /\ s_queue = 1
    /\ s_yielded = {}
    /\ s_pc = "idle"
    /\ s_cancel = 1
    /\ s_ret = NoIp
    /\ s_resolved = {}
    /\ s_late = {}

(***************************************************************************)
(* ping_ip, one step per attempt.                                          *)
(***************************************************************************)
InitProbe ==
    /\ p_is_windows \in BOOLEAN
    /\ p_retry \in 0..MaxRetry
    /\ p_pc = "loop"
    /\ attempt = 0
    /\ last_error = NoneText
    /\ p_ret = NoResult
    /\ p_last = Raised
    /\ p_reach = FALSE
    /\ p_failed = 0
    /\ p_events = << >>
    /\ p_forced = {}
    /\ CycleIdle
    /\ ScanIdle
    /\ ResolveIdle

\* one pass of "for attempt in range(retry)" up to its return or its sleep
PingAttempt ==
    /\ p_pc = "loop"
    /\ attempt < p_retry
    /\ \E oc \in AttemptOutcomes(p_is_windows) :
          LET b == ping_body(p_is_windows, oc, last_error)
          IN  /\ p_last' = oc
              /\ p_reach' = b.returned
              /\ p_events' = Append(p_events, IF b.returned THEN "run_ok" ELSE "run_fail")
              /\ p_forced' = IF ~oc.exc /\ oc.rc = 0 /\ ~judge(p_is_windows, oc).reachable
                             THEN p_forced \cup {Len(p_events) + 1}
                             ELSE p_forced
              /\ last_error' = b.last_error
              /\ IF b.returned
                 THEN /\ p_ret' = b.ret
                      /\ p_pc' = "done"
                      /\ UNCHANGED << attempt, p_failed >>
                 ELSE /\ p_failed' = p_failed + 1
                      /\ UNCHANGED p_ret
                      /\ IF needs_backoff(attempt, p_retry)
                         THEN p_pc' = "sleep" /\ UNCHANGED attempt
                         ELSE p_pc' = "loop" /\ attempt' = attempt + 1
    /\ UNCHANGED << p_is_windows, p_retry >>
    /\ UNCHANGED << cvars, svars, gvars >>

\* time.sleep(0.1), then the next pass
Backoff ==
    /\ p_pc = "sleep"
    /\ p_events' = Append(p_events, "sleep")
    /\ attempt' = attempt + 1
    /\ p_pc' = "loop"
    /\ UNCHANGED << p_is_windows, p_retry, last_error, p_ret, p_last, p_reach,
                    p_failed, p_forced >>
    /\ UNCHANGED << cvars, svars, gvars >>

\* the loop is over: every attempt failed
ReturnFailure ==
    /\ p_pc = "loop"
    /\ attempt >= p_retry
    /\ p_ret' = failure_return(last_error)
    /\ p_pc' = "done"
    /\ UNCHANGED << p_is_windows, p_retry, attempt, last_error, p_last, p_reach,
                    p_failed, p_events, p_forced >>
    /\ UNCHANGED << cvars, svars, gvars >>

NextProbe == PingAttempt \/ Backoff \/ ReturnFailure

SpecProbe == InitProbe /\ [][NextProbe]_vars

(***************************************************************************)
(* Properties of ping_ip.                                                  *)
(***************************************************************************)
Attempted == p_events # << >>
RanOk == Attempted /\ ~p_last.exc /\ p_last.rc = 0
Runs == { i \in 1..Len(p_events) : p_events[i] \in {"run_ok", "run_fail"} }
Sleeps == { i \in 1..Len(p_events) : p_events[i] = "sleep" }

\* C1: an attempt whose process exits with success but whose parsed loss is
\* 100% is judged unreachable, and ping_ip never returns reachable = true
\* together with a packet loss of 100.
C1_LossForcesUnreachable ==
    /\ (RanOk /\ parse_loss_pct(p_is_windows, p_last.out) = 100) => ~p_reach
    /\ (p_pc = "done" /\ p_ret.reachable) => p_ret.loss_pct # 100

C1_Witness ==
    /\ RanOk
    /\ parse_loss_pct(p_is_windows, p_last.out) = 100
    /\ has_success(p_last.out)
    /\ ~p_reach

\* C2 as stated: an attempt whose process exits with success and whose output
\* holds no evidence of a reply is judged unreachable, whether or not an
\* average latency was parsed.
C2_Original ==
    (RanOk /\ ~has_success(p_last.out)) => ~p_reach

\* C2, amended: an attempt whose process exits with success, whose output
\* holds no evidence of a reply and from which no average latency was parsed
\* is judged unreachable.
C2_NoEvidenceNoLatencyForcesUnreachable ==
    (RanOk /\ ~has_success(p_last.out)
           /\ parse_avg_ms(p_is_windows, p_last.out) = NoneNum) => ~p_reach

C2_Witness ==
    /\ RanOk
    /\ ~has_success(p_last.out)
    /\ parse_avg_ms(p_is_windows, p_last.out) = NoneNum
    /\ parse_loss_pct(p_is_windows, p_last.out) # 100
    /\ ~p_reach

\* the diagnostic of the last attempt: its output tail, or the error string
LastDiagnostic == IF p_last.exc THEN PingError ELSE output_tail(p_last.out)

SuccessReturnsThatAttempt ==
    /\ ~p_last.exc
    /\ Cardinality(Runs) = p_failed + 1
    /\ Cardinality(Runs) <= p_retry
    /\ p_ret = PingResult(TRUE, parse_avg_ms(p_is_windows, p_last.out),
                          parse_loss_pct(p_is_windows, p_last.out),
                          output_tail(p_last.out))

\* C3 as stated: with retries R >= 1, a success after failures returns that
\* attempt's latency, loss and tail; R failures return reachable = false with
\* the diagnostic of the last attempt.
C3_Original ==
    (p_pc = "done" /\ p_retry >= 1) =>
        IF p_ret.reachable THEN SuccessReturnsThatAttempt
        ELSE /\ p_failed = p_retry
             /\ p_ret = PingResult(FALSE, NoneNum, NoneNum, LastDiagnostic)

\* C3, amended: as stated, except that when the last failed attempt printed
\* nothing the diagnostic returned is the text "ping failed after retries".
C3_ReturnsLastAttempt ==
    (p_pc = "done" /\ p_retry >= 1) =>
        IF p_ret.reachable THEN SuccessReturnsThatAttempt
        ELSE /\ p_failed = p_retry
             /\ p_ret = PingResult(FALSE, NoneNum, NoneNum,
                                   IF LastDiagnostic = << >> THEN PingFailed
                                   ELSE LastDiagnostic)

C3_Witness ==
    /\ p_pc = "done"
    /\ p_retry >= 2
    /\ p_failed = p_retry
    /\ ~p_last.exc
    /\ p_last.out # << >>
    /\ p_ret.raw_tail = output_tail(p_last.out)

\* C4: one call runs at most retry ping processes and none after the first
\* attempt judged reachable; a backoff happens only between two attempts,
\* never after the last one.
C4_BoundedAttemptsAndBackoff ==
    /\ Cardinality(Runs) <= p_retry
    /\ \A i \in 1..Len(p_events) : p_events[i] = "run_ok" => i = Len(p_events)
    /\ \A i \in Sleeps :
          /\ i > 1 /\ p_events[i - 1] = "run_fail"
          /\ IF i < Len(p_events) THEN (i + 1) \in Runs
             ELSE p_pc = "loop" /\ attempt < p_retry
    /\ p_pc = "done" => Cardinality(Sleeps) = Cardinality(Runs \cup {1}) - 1

C4_Witness ==
    /\ p_pc = "done"
    /\ p_retry >= 3
    /\ Cardinality(Runs) = p_retry
    /\ Cardinality(Sleeps) = p_retry - 1

(***************************************************************************)
(* get_mac_address, one step per command it runs.                          *)
(***************************************************************************)
InitResolve ==
    /\ ProbeIdle
    /\ p_is_windows \in BOOLEAN
    /\ CycleIdle
    /\ ScanIdle
    /\ g_pc = "prime"
    /\ g_ping = Raised
    /\ g_primed = NoResult
    /\ g_arp = Raised
    /\ g_asked = FALSE
    /\ g_ret = Returned(NoMac)

\* line 167: ping_ip(ip, count=1, timeout_ms=500, retry=1)
PrimePing ==
    /\ g_pc = "prime"
    /\ \E oc \in AttemptOutcomes(p_is_windows) :
          /\ g_ping' = oc
          /\ IF attempt_escapes(oc)
             THEN \* the except clause of line 199 ends the call
                  /\ g_ret' = Returned(NoMac)
                  /\ g_pc' = "done"
                  /\ UNCHANGED g_primed
             ELSE /\ g_primed' = ping_ip(p_is_windows, << oc >>, 1)
                  /\ g_pc' = "arp"
                  /\ UNCHANGED g_ret
    /\ UNCHANGED << g_arp, g_asked >>
    /\ UNCHANGED << pvars, cvars, svars >>

\* lines 169-178: the arp command
RunArp ==
    /\ g_pc = "arp"
    /\ \E oc \in ArpOutcomes : g_arp' = oc
    /\ g_asked' = TRUE
    /\ g_pc' = "parse"
    /\ UNCHANGED << g_ping, g_primed, g_ret >>
    /\ UNCHANGED << pvars, cvars, svars >>

\* lines 180-201: the search of the output and the return
ReturnMac ==
    /\ g_pc = "parse"
    /\ g_ret' = arp_lookup(g_arp)
    /\ g_pc' = "done"
    /\ UNCHANGED << g_ping, g_primed, g_arp, g_asked >>
    /\ UNCHANGED << pvars, cvars, svars >>

NextResolve == PrimePing \/ RunArp \/ ReturnMac

SpecResolve == InitResolve /\ [][NextResolve]_vars

\* the last attempt ran to an exit code of 0 and passes both guards: its loss
\* is not 100%, and it has a latency or a line of a reply
PassesGuards ==
    /\ RanOk
    /\ ~(parse_loss_pct(p_is_windows, p_last.out) # NoneNum
         /\ parse_loss_pct(p_is_windows, p_last.out) >= 100)
    /\ \/ parse_avg_ms(p_is_windows, p_last.out) # NoneNum
       \/ has_success(p_last.out)

\* the runs of the ping command up to place i of the history
RunsUpTo(i) == { j \in Runs : j <= i }

\* C26: an attempt whose process exited with 0 and that a guard judged
\* unreachable is a failed attempt: ping_ip does not return on it, and when
\* attempts remain a backoff and then the next attempt follow it (or are
\* about to); and an attempt that passes both guards makes ping_ip return
\* reachable, also after such attempts.
C26_GuardedAttemptIsRetried ==
    /\ \A i \in p_forced :
          /\ p_events[i] = "run_fail"
          /\ IF Cardinality(RunsUpTo(i)) < p_retry
             THEN /\ IF i < Len(p_events) THEN p_events[i + 1] = "sleep"
                     ELSE p_pc = "sleep"
                  /\ IF i + 1 < Len(p_events) THEN (i + 2) \in Runs
                     ELSE p_pc \in {"sleep", "loop"} /\ Cardinality(Runs) < p_retry
             ELSE i = Len(p_events) /\ p_pc \in {"loop", "done"}
    /\ (p_events # << >> /\ p_events[Len(p_events)] \in {"run_ok", "run_fail"}
        /\ PassesGuards) =>
            /\ p_pc = "done"
            /\ p_ret.reachable
            /\ p_events[Len(p_events)] = "run_ok"

\* ping_ip returned reachable from an attempt that followed one forced
\* unreachable by a guard
C26_Witness ==
    /\ p_pc = "done"
    /\ p_ret.reachable
    /\ p_forced # {}
    /\ PassesGuards

(***************************************************************************)
(* Properties of get_mac_address.                                          *)
(***************************************************************************)
\* the command was missing or timed out (subprocess.run raised), or it
\* ended with an error
CommandFailed(oc) == oc.exc \/ oc.rc # 0

IsHexDigit(ch) == ch \in HexDigits
Digits(text) == upper(SelectSeq(text, IsHexDigit))

UpperHexDigits == { "0", "1", "2", "3", "4", "5", "6", "7", "8", "9",
                    "A", "B", "C", "D", "E", "F" }

\* six octets of two upper-case hexadecimal digits, separated by colons
Canonical(mac) ==
    /\ Len(mac) = 17
    /\ \A i \in 1..17 : IF i % 3 = 0 THEN mac[i] = ":"
                          ELSE mac[i] \in UpperHexDigits

\* a MAC text of the output: six pairs of digits with a colon or a hyphen
\* after each of the first five, or twelve digits in a row
MacTextAt(text, i, n) ==
    /\ i + n - 1 <= Len(text)
    /\ \/ /\ n = 17
          /\ \A k \in 0..16 : (text[i + k] \in HexDigits) <=> (k % 3 # 2)
          /\ \A k \in {2, 5, 8, 11, 14} : text[i + k] \in {":", "-"}
       \/ /\ n = 12
          /\ \A k \in 0..11 : text[i + k] \in HexDigits

\* C20: whatever the arp command printed, get_mac_address returns None or
\* a MAC in canonical form whose digits are, case aside, those of a MAC
\* text of the output in colon, hyphen or bare form.
C20_CanonicalMacOrNone ==
    (g_pc = "done" /\ g_ret.value # NoMac) =>
        /\ ~g_arp.exc
        /\ Canonical(g_ret.value)
        /\ \E i \in 1..Len(g_arp.out), n \in {12, 17} :
              /\ MacTextAt(g_arp.out, i, n)
              /\ Digits(SubSeq(g_arp.out, i, i + n - 1)) = Digits(g_ret.value)

\* twelve digits in a row, in lower case, come back as six octets
C20_Witness ==
    /\ g_pc = "done"
    /\ g_arp = Ran(0, MacABare)
    /\ g_ret = Returned(MacA)

\* where the output has a MAC text of n characters
TextsAt(text, n) == { i \in 1..Len(text) : MacTextAt(text, i, n) }

\* the leftmost MAC text among those of the lengths in ns
Leftmost(text, ns) ==
    CHOOSE m \in { << i, n >> : i \in 1..Len(text), n \in ns } :
        /\ m[1] \in TextsAt(text, m[2])
        /\ \A n \in ns : \A j \in TextsAt(text, n) : m[1] <= j

\* the value returned is the MAC text m of the output, in canonical form
ReturnsText(m) ==
    /\ Canonical(g_ret.value)
    /\ Digits(g_ret.value) = Digits(SubSeq(g_arp.out, m[1], m[1] + m[2] - 1))

\* the arp command ran and its output has MAC texts with and without
\* separators
BothForms ==
    /\ g_pc = "done"
    /\ ~g_arp.exc
    /\ TextsAt(g_arp.out, 17) # {}
    /\ TextsAt(g_arp.out, 12) # {}

\* C25 as stated: of several MAC texts in different forms, the one that
\* comes first in the output is returned.
C25_Original == BothForms => ReturnsText(Leftmost(g_arp.out, {12, 17}))

\* C25: get_mac_address returns the leftmost MAC text written with colons or
\* hyphens when the output has one, whatever stands before it; the leftmost
\* run of twelve digits is returned only when no text with separators is
\* there.
C25_SeparatedFormFirst ==
    (g_pc = "done" /\ ~g_arp.exc) =>
        IF TextsAt(g_arp.out, 17) # {}
        THEN ReturnsText(Leftmost(g_arp.out, {17}))
        ELSE IF TextsAt(g_arp.out, 12) # {}
             THEN ReturnsText(Leftmost(g_arp.out, {12}))
             ELSE g_ret.value = NoMac

\* twelve digits in a row come first, a MAC with colons after them, and the
\* MAC with colons is returned
C25_Witness ==
    /\ BothForms
    /\ Leftmost(g_arp.out, {12, 17})[2] = 12
    /\ g_ret = Returned(MacA)
    /\ ReturnsText(Leftmost(g_arp.out, {17}))

(***************************************************************************)
(* run_once, lines 830-937, one step per call it makes.                    *)
(***************************************************************************)
InitCycle ==
    /\ ProbeIdle
    /\ ScanIdle
    /\ ResolveIdle
    /\ p_is_windows \in BOOLEAN
    /\ store \in InitialStores
    /\ state = EmptyDict
    /\ cameras \in { build_cameras(conf) : conf \in Rosters }
    /\ mac_tracking_enabled \in BOOLEAN
    /\ speed_enabled \in BOOLEAN
    /\ mac_cache = EmptyDict
    /\ mac_cache_updated = FALSE
    /\ cam_reports = << >>
    /\ c_pc = "load"
    /\ idx = 1
    /\ ip = NoIp
    /\ reachable = FALSE
    /\ avg_ms = NoneNum
    /\ loss = NoneNum
    /\ suspicious = FALSE
    /\ mac_address = NoMac
    /\ ip_changed = FALSE
    /\ new_ip = NoIp
    /\ now = 1
    /\ c_cache0 = EmptyDict
    /\ c_sighted = {}
    /\ c_changed = FALSE
    /\ c_saves = 0
    /\ c_trace = << >>

locals == << ip, reachable, avg_ms, loss, suspicious, mac_address, ip_changed, new_ip >>
config == << cameras, mac_tracking_enabled, speed_enabled >>
history == << c_cache0, c_sighted, c_changed, c_saves, c_trace >>

\* line 830: state = _load_state()
LoadState ==
    /\ c_pc = "load"
    /\ \E readable \in BOOLEAN : state' = load_state(store, readable)
    /\ c_pc' = "speedtest"
    /\ UNCHANGED << store, config, mac_cache, mac_cache_updated, cam_reports, idx,
                    locals, now, history >>
    /\ UNCHANGED << pvars, svars, gvars >>

\* lines 831-856: the speedtest when it is due, then the start of the loop
Speedtest ==
    /\ c_pc = "speedtest"
    /\ \E elapsed \in BOOLEAN, writable \in BOOLEAN :
          LET run_st == "last_speedtest_at" \notin DOMAIN state \/ elapsed
          IN  IF speed_enabled /\ run_st
              THEN /\ state' = Put(Put(state, "last_speedtest_at", now),
                                   "last_speedtest", "st")
                   /\ store' = save_state(store, state', writable)
              ELSE UNCHANGED << state, store >>
    /\ cam_reports' = << >>
    /\ mac_cache' = Get(state', "camera_mac_cache", EmptyDict)
    /\ mac_cache_updated' = FALSE
    /\ idx' = 1
    /\ c_cache0' = mac_cache'
    /\ c_sighted' = {}
    /\ c_changed' = FALSE
    /\ c_saves' = 0
    /\ c_trace' = << >>
    /\ c_pc' = "probe"
    /\ UNCHANGED << config, locals, now >>
    /\ UNCHANGED << pvars, svars, gvars >>

\* lines 859-876 and the branch taken at 877-900
ProbeCamera ==
    /\ c_pc = "probe"
    /\ \E call \in { r \in CycleProbes : r.is_windows = p_is_windows } :
          LET res == call.ret
              c == cameras[idx]
              key == cam_id(c)
          IN  /\ ip' = c.ip
              /\ reachable' = res.reachable
              /\ avg_ms' = res.avg_ms
              /\ loss' = res.loss_pct
              /\ suspicious' = (res.reachable /\ res.avg_ms # NoneNum
                                /\ res.avg_ms > 500 /\ is_local(c.ip))
              /\ c_pc' = IF mac_tracking_enabled /\ res.reachable THEN "resolve"
                         ELSE IF wants_scan(mac_tracking_enabled, res.reachable,
                                            mac_cache, key, c.ip)
                              THEN "scan"
                              ELSE "emit"
              /\ c_trace' = Append(c_trace,
                                   Evaluation(res.reachable, Entry(mac_cache, key),
                                              IF res.raw_tail = PingError THEN 1 ELSE 0))
    /\ mac_address' = NoMac
    /\ ip_changed' = FALSE
    /\ new_ip' = NoIp
    /\ now' = now + 1
    /\ UNCHANGED << store, state, config, mac_cache, mac_cache_updated,
                    cam_reports, idx, c_cache0, c_sighted, c_changed, c_saves >>
    /\ UNCHANGED << pvars, svars, gvars >>

\* lines 880-890: the camera answered
ResolveMac ==
    /\ c_pc = "resolve"
    /\ \E call \in { r \in CycleResolutions : r.is_windows = p_is_windows } :
          LET res == call.ret
              key == cam_id(cameras[idx])
              mac == res.value
              rec == IF mac # NoMac
                     THEN record_sighting(mac_cache, mac_cache_updated, key, mac, ip, now)
                     ELSE [cache |-> mac_cache, updated |-> mac_cache_updated]
          IN  /\ c_trace' = [c_trace EXCEPT
                                ![idx].resolves = @ + 1,
                                ![idx].errors = IF call.exc THEN @ + 1 ELSE @]
              /\ IF res.raised
                 THEN /\ c_pc' = "raised"
                      /\ UNCHANGED << mac_address, mac_cache, mac_cache_updated,
                                      c_sighted, c_changed >>
                 ELSE /\ c_pc' = "emit"
                      /\ mac_address' = mac
                      /\ mac_cache' = rec.cache
                      /\ mac_cache_updated' = rec.updated
                      /\ c_sighted' = IF mac # NoMac THEN c_sighted \cup {idx}
                                      ELSE c_sighted
                      /\ c_changed' = (c_changed \/ rec.cache # mac_cache)
    /\ UNCHANGED << store, state, config, cam_reports, idx, ip, reachable, avg_ms,
                    loss, suspicious, ip_changed, new_ip, now, c_cache0,
                    c_saves >>
    /\ UNCHANGED << pvars, svars, gvars >>

\* lines 896-908: the camera is silent and its MAC is known
ScanNetwork ==
    /\ c_pc = "scan"
    /\ \E found \in ScanResults(SubSeq(ip, 1, 3)) :
          /\ new_ip' = found
          /\ c_trace' = [c_trace EXCEPT ![idx].scans = @ + 1, ![idx].found = found]
          /\ IF wants_reprobe(found, ip)
             THEN ip_changed' = TRUE /\ c_pc' = "reprobe"
             ELSE ip_changed' = ip_changed /\ c_pc' = "emit"
    /\ UNCHANGED << store, state, config, mac_cache, mac_cache_updated,
                    cam_reports, idx, ip, reachable, avg_ms, loss, suspicious,
                    mac_address, now, c_cache0, c_sighted, c_changed, c_saves >>
    /\ UNCHANGED << pvars, svars, gvars >>

\* lines 910-920: the probe of the address the scan found
Reprobe ==
    /\ c_pc = "reprobe"
    /\ now' = now + 1
    /\ \E call \in { r \in CycleProbes : r.is_windows = p_is_windows } :
          LET res == call.ret
              key == cam_id(cameras[idx])
              rec == IF res.reachable
                     THEN record_relocation(mac_cache, mac_cache_updated, key, new_ip, now')
                     ELSE [cache |-> mac_cache, updated |-> mac_cache_updated]
          IN  /\ reachable' = res.reachable
              /\ avg_ms' = res.avg_ms
              /\ loss' = res.loss_pct
              /\ mac_cache' = rec.cache
              /\ mac_cache_updated' = rec.updated
              /\ ip' = IF res.reachable THEN new_ip ELSE ip
              /\ c_sighted' = IF res.reachable THEN c_sighted \cup {idx} ELSE c_sighted
              /\ c_changed' = (c_changed \/ rec.cache # mac_cache)
              /\ c_trace' = [c_trace EXCEPT
                                ![idx].reprobes = @ + 1,
                                ![idx].second = res.reachable,
                                ![idx].errors = IF res.raw_tail = PingError
                                                THEN @ + 1 ELSE @]
    /\ c_pc' = "emit"
    /\ UNCHANGED << store, state, config, cam_reports, idx, suspicious,
                    mac_address, ip_changed, new_ip, c_cache0, c_saves >>
    /\ UNCHANGED << pvars, svars, gvars >>

\* lines 922-932, and the next camera
EmitReport ==
    /\ c_pc = "emit"
    /\ cam_reports' = Append(cam_reports, Report(cameras[idx]))
    /\ idx' = idx + 1
    /\ c_pc' = IF idx < Len(cameras) THEN "probe" ELSE "save"
    /\ UNCHANGED << store, state, config, mac_cache, mac_cache_updated, locals,
                    now, history >>
    /\ UNCHANGED << pvars, svars, gvars >>

\* lines 934-937
SaveCache ==
    /\ c_pc = "save"
    /\ IF mac_cache_updated
       THEN /\ state' = Put(state, "camera_mac_cache", mac_cache)
            /\ \E writable \in BOOLEAN : store' = save_state(store, state', writable)
            /\ c_saves' = c_saves + 1
       ELSE UNCHANGED << state, store, c_saves >>
    /\ c_pc' = "done"
    /\ UNCHANGED << config, mac_cache, mac_cache_updated, cam_reports, idx,
                    locals, now, c_cache0, c_sighted, c_changed, c_trace >>
    /\ UNCHANGED << pvars, svars, gvars >>

\* main's loop calls run_once again, also after an exception (lines 968-982)
NextCycle ==
    /\ c_pc \in {"done", "raised"}
    /\ now <= MaxClock
    /\ c_pc' = "load"
    /\ UNCHANGED << store, state, config, mac_cache, mac_cache_updated,
                    cam_reports, idx, locals, now, history >>
    /\ UNCHANGED << pvars, svars, gvars >>

NextCycleStep ==
    \/ LoadState \/ Speedtest \/ ProbeCamera \/ ResolveMac \/ ScanNetwork
    \/ Reprobe \/ EmitReport \/ SaveCache \/ NextCycle

SpecCycle == InitCycle /\ [][NextCycleStep]_vars

(***************************************************************************)
(* Properties of the camera loop and of the MAC cache.                     *)
(***************************************************************************)
Key(i) == cam_id(cameras[i])
InLoop == c_pc \in {"probe", "resolve", "scan", "reprobe", "emit", "save", "done"}

\* C5: every sighting of a camera (probe reachable and MAC resolved) leaves
\* its entry with the MAC resolved, last_ip the address just seen and
\* last_seen the time of the sighting, also when the MAC is the cached one.
C5_SightingRefreshesEntry ==
    (c_pc = "emit" /\ reachable /\ ~ip_changed /\ mac_address # NoMac) =>
        /\ Key(idx) \in DOMAIN mac_cache
        /\ mac_cache[Key(idx)] = CacheEntry(mac_address, ip, now)

\* C6: within a cycle, the entry of a roster device that has had no
\* reachable probe with a MAC resolved is as it was when the loop started.
C6_WrittenOnlyOnSighting ==
    InLoop =>
        \A i \in 1..Len(cameras) :
            i \notin c_sighted =>
                Entry(mac_cache, Key(i)) = Entry(c_cache0, Key(i))

\* C7: at the end of the camera loop _save_state has been called for the
\* cache exactly when an entry was created or changed in the cycle, and at
\* most once.
C7_SavedIffChanged ==
    c_pc = "done" => /\ c_saves \in {0, 1}
                     /\ (c_saves = 1) <=> c_changed

C7_Witness ==
    /\ c_pc = "done"
    /\ c_saves = 1
    /\ ip_changed
    /\ reachable
    /\ mac_cache # c_cache0

\* C8: the write of the cache to agent_state.json leaves every other key of
\* the document present with the value it had just before the write.
C8_SavePreservesOtherKeys ==
    [][ (c_pc = "save" /\ c_pc' = "done") =>
            \A k \in (DOMAIN store \cup DOMAIN store') \ {"camera_mac_cache"} :
                /\ k \in DOMAIN store
                /\ k \in DOMAIN store'
                /\ store'[k] = store[k] ]_vars

(***************************************************************************)
(* scan_network_for_mac, lines 219-255: the caller, the worker threads of  *)
(* the executor and the clock.                                             *)
(***************************************************************************)
\* lines 219-241: every suffix is submitted; the hosts have the MAC looked
\* for or no entry, and at most one has another MAC
InitScan ==
    /\ ProbeIdle
    /\ p_is_windows = TRUE
    /\ CycleIdle
    /\ ResolveIdle
    /\ s_mac \in {MacA, MacALowerHyphen}
    /\ s_timeout_sec \in {0, 1}
    /\ s_arp \in { f \in [Suffixes -> {NoMac, MacA, MacB}] :
                      Cardinality({ suffix \in Suffixes : f[suffix] = MacB }) <= 1 }
    /\ s_elapsed = 0
    /\ futures = [suffix \in Suffixes |-> "pending"]
    /\ s_result = [suffix \in Suffixes |-> NoIp]
    /\ s_queue = 1
    /\ s_yielded = {}
    /\ s_pc = "collect"
    /\ s_cancel = 1
    /\ s_ret = NoIp
    /\ s_resolved = {}
    /\ s_late = {}

Running == { suffix \in Suffixes : futures[suffix] = "running" }

\* variant: no worker thread ever takes a work item
worker_stuck(running) == FALSE

\* variant: the pool starts a thread for every work item
worker_unbounded(running) == TRUE

\* ThreadPoolExecutor(max_workers=20): a work item is taken when fewer than
\* max_workers threads are busy
worker_free(running) == Cardinality(running) < MaxWorkers

params == << s_mac, s_timeout_sec, s_arp >>

\* time passes; the clock is followed up to the first instant after the
\* deadline
Tick ==
    /\ s_pc \in {"collect", "cancel", "shutdown"}
    /\ s_elapsed < MaxScanClock
    /\ s_elapsed <= s_timeout_sec
    /\ s_elapsed' = s_elapsed + 1
    /\ UNCHANGED << params, futures, s_result, s_queue, s_yielded, s_pc, s_ret,
                    s_resolved, s_late >>
    /\ UNCHANGED s_cancel
    /\ UNCHANGED << pvars, cvars, gvars >>

\* a free worker takes the next work item; its future was cancelled
WorkerSkip ==
    /\ s_pc \in {"collect", "cancel", "shutdown"}
    /\ s_queue <= MaxSuffix
    /\ worker_free(Running)
    /\ futures[s_queue] = "cancelled"
    /\ s_queue' = s_queue + 1
    /\ UNCHANGED << params, s_elapsed, futures, s_result, s_yielded, s_pc, s_ret,
                    s_resolved, s_late >>
    /\ UNCHANGED s_cancel
    /\ UNCHANGED << pvars, cvars, gvars >>

\* a free worker takes the next work item and runs check_ip up to its call of
\* get_mac_address (lines 226-230)
WorkerStart ==
    /\ s_pc \in {"collect", "cancel", "shutdown"}
    /\ s_queue <= MaxSuffix
    /\ worker_free(Running)
    /\ futures[s_queue] = "pending"
    /\ s_queue' = s_queue + 1
    /\ IF past_deadline(s_elapsed, s_timeout_sec)
       THEN /\ futures' = [futures EXCEPT ![s_queue] = "finished"]
            /\ UNCHANGED s_resolved
       ELSE /\ futures' = [futures EXCEPT ![s_queue] = "running"]
            /\ s_resolved' = s_resolved \cup {s_queue}
    /\ UNCHANGED << params, s_elapsed, s_result, s_yielded, s_pc, s_ret, s_late >>
    /\ UNCHANGED s_cancel
    /\ UNCHANGED << pvars, cvars, gvars >>

\* get_mac_address returns and check_ip ends (lines 230-236)
WorkerFinish ==
    /\ s_pc \in {"collect", "cancel", "shutdown"}
    /\ \E suffix \in Running :
          /\ futures' = [futures EXCEPT ![suffix] = "finished"]
          /\ s_result' = [s_result EXCEPT
                            ![suffix] = check_ip_result(s_mac, suffix, s_arp[suffix])]
          /\ s_late' = IF s_elapsed > s_timeout_sec THEN s_late \cup {suffix}
                       ELSE s_late
    /\ UNCHANGED << params, s_elapsed, s_queue, s_yielded, s_pc, s_ret, s_resolved >>
    /\ UNCHANGED s_cancel
    /\ UNCHANGED << pvars, cvars, gvars >>

\* variant: cancel() leaves every future as it is
cancel_nothing(status) == status

\* Future.cancel(): a future that has not started is cancelled, one that is
\* running or done is left alone
cancel(status) == IF status = "pending" THEN "cancelled" ELSE status

\* lines 243-246: as_completed yields a future that is done
Collect ==
    /\ s_pc = "collect"
    /\ \E suffix \in Suffixes \ s_yielded :
          /\ futures[suffix] = "finished"
          /\ s_yielded' = s_yielded \cup {suffix}
          /\ IF s_result[suffix] # NoIp
             THEN /\ s_ret' = s_result[suffix]
                  /\ s_pc' = "cancel"
             ELSE UNCHANGED << s_ret, s_pc >>
    /\ UNCHANGED << params, s_elapsed, futures, s_result, s_queue, s_cancel,
                    s_resolved, s_late >>
    /\ UNCHANGED << pvars, cvars, gvars >>

\* lines 247-250: one pass of "for f in futures: f.cancel()", and the return
\* after the last
CancelNext ==
    /\ s_pc = "cancel"
    /\ futures' = [futures EXCEPT ![s_cancel] = cancel(futures[s_cancel])]
    /\ s_cancel' = s_cancel + 1
    /\ s_pc' = IF s_cancel = MaxSuffix THEN "shutdown" ELSE "cancel"
    /\ UNCHANGED << params, s_elapsed, s_result, s_queue, s_yielded, s_ret,
                    s_resolved, s_late >>
    /\ UNCHANGED << pvars, cvars, gvars >>

\* as_completed has yielded every future: the loop ends without a result
CollectEnd ==
    /\ s_pc = "collect"
    /\ s_yielded = Suffixes
    /\ s_ret' = NoIp
    /\ s_pc' = "shutdown"
    /\ UNCHANGED << params, s_elapsed, futures, s_result, s_queue, s_yielded,
                    s_resolved, s_late >>
    /\ UNCHANGED s_cancel
    /\ UNCHANGED << pvars, cvars, gvars >>

\* the with block ends: shutdown(wait=True) returns once the workers have
\* emptied the queue, then the value is returned
Shutdown ==
    /\ s_pc = "shutdown"
    /\ s_queue > MaxSuffix
    /\ Running = {}
    /\ s_pc' = "done"
    /\ UNCHANGED << params, s_elapsed, futures, s_result, s_queue, s_yielded,
                    s_ret, s_resolved, s_late >>
    /\ UNCHANGED s_cancel
    /\ UNCHANGED << pvars, cvars, gvars >>

NextScan ==
    \/ Tick \/ WorkerSkip \/ WorkerStart \/ WorkerFinish
    \/ Collect \/ CancelNext \/ CollectEnd \/ Shutdown

SpecScan == InitScan /\ [][NextScan]_vars

(***************************************************************************)
(* Properties of scan_network_for_mac.                                     *)
(***************************************************************************)
\* the same MAC, whatever the case of its digits and its separators
SameMac(a, b) == upper(replace_hyphens(a)) = upper(replace_hyphens(b))
\* the host at this suffix has the MAC looked for
Matches(suffix) == s_arp[suffix] # NoMac /\ SameMac(s_arp[suffix], s_mac)
OnlyMatch(suffix) ==
    Matches(suffix) /\ \A other \in Suffixes \ {suffix} : ~Matches(other)
\* the resolution of this suffix was made and ended before timeout_sec had
\* elapsed since the start of the scan
ResolvedInTime(suffix) ==
    /\ suffix \in s_resolved
    /\ futures[suffix] = "finished"
    /\ suffix \notin s_late

\* C9: when exactly one suffix resolves to the MAC looked for, and does so
\* within the timeout, the scan returns the address of that suffix, whatever
\* its position and the interleaving of the workers; when no suffix resolves
\* to that MAC the scan returns None.
C9_FindsTheOnlyMatch ==
    s_pc = "done" =>
        /\ \A suffix \in Suffixes :
              (OnlyMatch(suffix) /\ ResolvedInTime(suffix)) => s_ret = ScanIp(suffix)
        /\ (\A suffix \in Suffixes : ~Matches(suffix)) => s_ret = NoIp

C9_Witness ==
    /\ s_pc = "done"
    /\ s_mac = MacALowerHyphen
    /\ OnlyMatch(MaxSuffix)
    /\ ResolvedInTime(MaxSuffix)
    /\ s_arp[1] = MacB
    /\ s_ret = ScanIp(MaxSuffix)

\* C10: the scan returns None whenever the only matching resolution ends
\* after timeout_sec has elapsed since the start of the scan, also when that
\* resolution began before the deadline.
C10_NoneWhenOnlyMatchIsLate ==
    s_pc = "done" =>
        \A suffix \in Suffixes :
            (OnlyMatch(suffix) /\ suffix \in s_late) => s_ret = NoIp

\* a worker takes this unit of work from the queue in this step
PickedUp(suffix) ==
    suffix = s_queue /\ s_queue' = s_queue + 1 /\ futures[suffix] = "pending"

\* C11: no unit begins a resolution once the deadline of the scan has
\* passed: a unit picked up by a worker after start_time + timeout_sec ends
\* with None without calling get_mac_address, and every resolution begins
\* at a time that is not after the deadline.
C11_NoResolutionAfterDeadline ==
    [][ /\ \A suffix \in Suffixes :
              (PickedUp(suffix) /\ s_elapsed > s_timeout_sec) =>
                  /\ suffix \notin s_resolved'
                  /\ futures'[suffix] = "finished"
                  /\ s_result'[suffix] = NoIp
        /\ \A suffix \in s_resolved' \ s_resolved :
              s_elapsed <= s_timeout_sec ]_vars

\* a unit was picked up after the deadline and ended unresolved, while
\* another had been resolved in time
C11_Witness ==
    /\ s_elapsed > s_timeout_sec
    /\ s_timeout_sec > 0
    /\ s_resolved # {}
    /\ \E suffix \in Suffixes \ s_resolved :
          /\ futures[suffix] = "finished"
          /\ s_result[suffix] = NoIp
          /\ Matches(suffix)

\* C12: at every moment at most max_workers resolutions are in flight, and
\* each suffix is resolved at most once in a scan: a unit that begins a
\* resolution has not begun one before.
C12_BoundedInFlightResolvedOnce ==
    /\ [](Cardinality(Running) <= MaxWorkers)
    /\ [][ \A suffix \in Suffixes :
              (futures[suffix] # "running" /\ futures'[suffix] = "running") =>
                  /\ suffix \notin s_resolved
                  /\ futures[suffix] = "pending" ]_vars

\* the pool is full while a unit waits in the queue
C12_Witness ==
    /\ Cardinality(Running) = MaxWorkers
    /\ s_queue <= MaxSuffix
    /\ futures[s_queue] = "pending"
    /\ s_resolved = Running

\* the caller has seen a match and has ended its loop of cancel() calls
Signalled == s_pc \in {"shutdown", "done"} /\ s_ret # NoIp

\* C13: once the caller has seen a match and called cancel() on every
\* future, no unit is left waiting and none begins a resolution; a unit that
\* is cancelled stays so, a unit that is running is not cancelled and has
\* ended with its own result when the scan returns; the value returned is
\* the address of the match seen.
C13_CancelSkipsUnstartedOnly ==
    /\ [](Signalled => \A suffix \in Suffixes : futures[suffix] # "pending")
    /\ [][ Signalled =>
              /\ s_resolved' = s_resolved
              /\ s_ret' = s_ret
              /\ \A suffix \in Suffixes :
                    /\ futures[suffix] = "cancelled" => futures'[suffix] = "cancelled"
                    /\ futures[suffix] = "running" =>
                          futures'[suffix] \in {"running", "finished"} ]_vars
    /\ []((s_pc = "done" /\ s_ret # NoIp) =>
              /\ \A suffix \in Suffixes :
                    IF suffix \in s_resolved
                    THEN /\ futures[suffix] = "finished"
                         /\ s_result[suffix] = check_ip_result(s_mac, suffix, s_arp[suffix])
                    ELSE futures[suffix] \in {"finished", "cancelled"}
              /\ \E suffix \in s_yielded :
                    Matches(suffix) /\ s_ret = ScanIp(suffix))

\* after the cancel() calls one unit is cancelled and another still runs
C13_Witness ==
    /\ s_pc = "shutdown"
    /\ s_ret # NoIp
    /\ Running # {}
    /\ \E suffix \in Suffixes : futures[suffix] = "cancelled"

\* C28: an address the scan returns is the prefix followed by one of the
\* suffixes submitted, get_mac_address was called for that address in this
\* scan and has returned, and what it returned is the MAC looked for, case
\* and separators aside; with several hosts that match, the address is that
\* of one of them.
C28_ResultIsAResolvedMatch ==
    s_ret # NoIp =>
        \E suffix \in Suffixes :
            /\ s_ret = ScanIp(suffix)
            /\ suffix \in s_resolved
            /\ futures[suffix] = "finished"
            /\ suffix \in s_yielded
            /\ Matches(suffix)

\* two hosts have the MAC, a third has another, and the scan returned the
\* second of the two
C28_Witness ==
    /\ s_pc = "done"
    /\ Matches(1)
    /\ Matches(2)
    /\ s_arp[MaxSuffix] = MacB
    /\ MaxSuffix \in s_resolved
    /\ s_ret = ScanIp(2)

(***************************************************************************)
(* Properties of the evaluation of one camera (lines 858-932).             *)
(***************************************************************************)
\* the cameras whose report has been appended in this cycle
Reported == 1..Len(cam_reports)

\* the report of a camera found at its roster address or not found
ReportAtRoster(i, status) ==
    /\ cam_reports[i].status = status
    /\ cam_reports[i].ip = cameras[i].ip
    /\ cam_reports[i].ip_changed = FALSE
    /\ cam_reports[i].old_ip = NoIp

\* the camera being evaluated is about to be reported with a MAC resolved
\* at its roster address
ResolvedAtRoster ==
    c_pc = "emit" /\ c_trace[idx].first /\ mac_address # NoMac

RecordedForDevice ==
    /\ Key(idx) \in DOMAIN mac_cache
    /\ mac_cache[Key(idx)].mac = mac_address

\* C14 as stated: when the first probe of a camera is reachable, its MAC is
\* resolved at the roster address and recorded under the camera when one is
\* resolved, no scan is started, and the report is up at the roster address,
\* not relocated, without a previous address.
C14_Original ==
    /\ \A i \in Reported :
          c_trace[i].first =>
              /\ c_trace[i].resolves = 1
              /\ c_trace[i].scans = 0
              /\ ReportAtRoster(i, "up")
    /\ ResolvedAtRoster => RecordedForDevice

\* C14, amended: as stated when MAC tracking is enabled; when it is disabled
\* nothing is resolved and the report is the same.
C14_ReachableAtRoster ==
    /\ \A i \in Reported :
          c_trace[i].first =>
              /\ c_trace[i].resolves = IF mac_tracking_enabled THEN 1 ELSE 0
              /\ c_trace[i].scans = 0
              /\ ReportAtRoster(i, "up")
    /\ ResolvedAtRoster => RecordedForDevice

\* a camera that had no entry answers and its MAC is resolved
C14_Witness ==
    /\ ResolvedAtRoster
    /\ c_trace[idx].before = {}
    /\ c_trace[idx].resolves = 1
    /\ mac_cache[Key(idx)] = CacheEntry(mac_address, cameras[idx].ip, now)

\* the first probe failed and the camera has no cached MAC, or the scan for
\* its cached MAC returned None
NoCandidate(i) ==
    /\ ~c_trace[i].first
    /\ \/ c_trace[i].before = {}
       \/ \E e \in c_trace[i].before : e.mac = NoMac
       \/ (c_trace[i].scans = 1 /\ c_trace[i].found = NoIp)

\* C15: a camera whose first probe is unreachable and for which there is no
\* candidate address is reported down at its roster address, not relocated,
\* without a previous address, and its entry is as it was before.
C15_DownWithoutCandidate ==
    /\ \A i \in Reported : NoCandidate(i) => ReportAtRoster(i, "down")
    /\ (c_pc = "emit" /\ NoCandidate(idx)) =>
            /\ c_trace[idx].reprobes = 0
            /\ Entry(mac_cache, Key(idx)) = c_trace[idx].before

\* a camera with a cached MAC is silent, the scan returns None and the
\* report is sent
C15_Witness ==
    /\ Len(cam_reports) = 1
    /\ NoCandidate(1)
    /\ c_trace[1].before # {}
    /\ c_trace[1].scans = 1
    /\ cam_reports[1].status = "down"

\* the scan found the cached MAC at another address and the probe of that
\* address was unreachable
RelocationFailed(i) ==
    /\ ~c_trace[i].first
    /\ c_trace[i].scans = 1
    /\ c_trace[i].found # NoIp
    /\ c_trace[i].found # cameras[i].ip
    /\ c_trace[i].reprobes = 1
    /\ ~c_trace[i].second

\* C16: when the scan finds the cached MAC at an address other than the
\* roster address and the probe of that address is unreachable, the camera
\* is reported down, not relocated, without a previous address, and its
\* entry is as it was before.
C16_DownWhenReprobeFails ==
    /\ \A i \in Reported :
          RelocationFailed(i) =>
              /\ cam_reports[i].status = "down"
              /\ cam_reports[i].ip_changed = FALSE
              /\ cam_reports[i].old_ip = NoIp
    /\ (c_pc = "emit" /\ RelocationFailed(idx)) =>
            Entry(mac_cache, Key(idx)) = c_trace[idx].before

\* the scan found the cached MAC at another address and the probe of that
\* address was reachable
Relocated(i) ==
    /\ ~c_trace[i].first
    /\ c_trace[i].before # {}
    /\ c_trace[i].scans = 1
    /\ c_trace[i].found # NoIp
    /\ c_trace[i].found # cameras[i].ip
    /\ c_trace[i].reprobes = 1
    /\ c_trace[i].second

\* C17: a camera cached with MAC M whose probe at its roster address A
\* fails, whose scan finds M at B # A and whose probe of B succeeds is
\* reported up at B, relocated, with previous address A, and when the loop
\* over the cameras has ended its entry has mac = M and last_ip = B.
C17_RelocationEndToEnd ==
    \A i \in Reported :
        Relocated(i) =>
            /\ cam_reports[i].status = "up"
            /\ cam_reports[i].ip = c_trace[i].found
            /\ cam_reports[i].ip_changed = TRUE
            /\ cam_reports[i].old_ip = cameras[i].ip
            /\ c_pc \in {"save", "done"} =>
                  /\ Key(i) \in DOMAIN mac_cache
                  /\ \E e \in c_trace[i].before : mac_cache[Key(i)].mac = e.mac
                  /\ mac_cache[Key(i)].last_ip = c_trace[i].found

\* C18: whatever the probes, resolutions and scans of a cycle meet, errors
\* included, no exception leaves the loop over the cameras, the reports are
\* those of the first cameras of the roster in roster order, one each, and
\* when the loop has ended every camera of the roster has its report.
C18_OneReportPerDevice ==
    /\ c_pc # "raised"
    /\ Len(cam_reports) <= Len(cameras)
    /\ \A i \in Reported :
          /\ cam_reports[i].name = cameras[i].name
          /\ cameras[i].ip \in {cam_reports[i].ip, cam_reports[i].old_ip}
    /\ c_pc \in {"probe", "resolve", "scan", "reprobe", "emit"} =>
            /\ idx <= Len(cameras)
            /\ Len(cam_reports) = idx - 1
            /\ Len(c_trace) = IF c_pc = "probe" THEN idx - 1 ELSE idx
    /\ c_pc \in {"save", "done"} => Len(cam_reports) = Len(cameras)

\* the probe of the first camera ended on a command that raised, the arp
\* command of the second raised, and both are reported
C18_Witness ==
    /\ c_pc = "done"
    /\ Len(cam_reports) = 2
    /\ ~c_trace[1].first
    /\ c_trace[1].errors = 1
    /\ c_trace[2].first
    /\ c_trace[2].resolves = 1
    /\ c_trace[2].errors = 1

\* the first probe failed and the scan found the cached MAC at the roster
\* address itself
FoundAtRoster(i) ==
    /\ ~c_trace[i].first
    /\ c_trace[i].scans = 1
    /\ c_trace[i].found = cameras[i].ip

\* C29: a camera whose first probe is unreachable and whose cached MAC the
\* scan finds at the roster address is not probed again, its entry stays as
\* it was, and it is reported down at the roster address, not relocated,
\* without a previous address.
C29_FoundWhereItWas ==
    /\ \A i \in Reported :
          FoundAtRoster(i) => /\ ReportAtRoster(i, "down")
                              /\ c_trace[i].reprobes = 0
    /\ (c_pc = "emit" /\ FoundAtRoster(idx)) =>
            /\ c_trace[idx].reprobes = 0
            /\ ~ip_changed
            /\ ~reachable
            /\ Entry(mac_cache, Key(idx)) = c_trace[idx].before

\* the scan answered with the roster address and the report is sent
C29_Witness ==
    /\ Len(cam_reports) = 1
    /\ FoundAtRoster(1)
    /\ c_trace[1].found = Addr(1)
    /\ cam_reports[1].status = "down"
    /\ ~cam_reports[1].ip_changed
    /\ Entry(mac_cache, Key(1)) = c_trace[1].before

(***************************************************************************)
(* The cache across cycles.                                                *)
(***************************************************************************)
\* the cache as agent_state.json holds it
Persisted == Get(store, "camera_mac_cache", EmptyDict)

\* C22: no step of any cycle removes a device from the cache: the keys of the
\* cache in agent_state.json only grow, and so do the keys of the cache in
\* memory while the cameras of a cycle are evaluated.
C22_CacheKeysOnlyGrow ==
    [][ /\ DOMAIN Persisted \subseteq DOMAIN Persisted'
        /\ (InLoop /\ c_pc # "done") => DOMAIN mac_cache \subseteq DOMAIN mac_cache'
      ]_vars

\* the entries of the cache whose MAC a step changes
MacChanged ==
    { k \in DOMAIN mac_cache \cap DOMAIN mac_cache' : mac_cache'[k].mac # mac_cache[k].mac }

\* C23: while the cameras of a cycle are evaluated, the MAC of an existing
\* entry changes only in the step that resolves the MAC of the camera the
\* entry belongs to, reached because the camera answered at its roster
\* address, and only to a resolved MAC that differs from the cached one; the
\* step that follows a relocation changes last_ip and last_seen of the
\* camera's entry and nothing else in the cache.
C23_MacChangesOnlyOnSighting ==
    [][ (InLoop /\ c_pc # "done") =>
          /\ \A k \in MacChanged :
                /\ c_pc = "resolve"
                /\ k = Key(idx)
                /\ reachable
                /\ ip = cameras[idx].ip
                /\ mac_address' # NoMac
                /\ mac_address' # mac_cache[k].mac
                /\ mac_cache'[k].mac = mac_address'
          /\ c_pc = "reprobe" =>
                /\ DOMAIN mac_cache' = DOMAIN mac_cache
                /\ \A k \in DOMAIN mac_cache :
                      /\ mac_cache'[k].mac = mac_cache[k].mac
                      /\ k # Key(idx) => mac_cache'[k] = mac_cache[k]
      ]_vars

\* a relocated camera's entry has a new address and the MAC it had, and in
\* the same cycle another entry had its MAC replaced
C23_Witness ==
    /\ c_pc = "emit"
    /\ ip_changed
    /\ reachable
    /\ Key(idx) \in DOMAIN mac_cache
    /\ Key(idx) \in DOMAIN c_cache0
    /\ mac_cache[Key(idx)].last_ip # c_cache0[Key(idx)].last_ip
    /\ mac_cache[Key(idx)].mac = c_cache0[Key(idx)].mac
    /\ \E k \in (DOMAIN mac_cache \cap DOMAIN c_cache0) \ {Key(idx)} :
          mac_cache[k].mac # c_cache0[k].mac

\* the keys whose entry a step creates or changes
Written ==
    { k \in DOMAIN mac_cache' : Entry(mac_cache', k) # Entry(mac_cache, k) }

\* the key whose entry a step reads: the scan looks for the MAC cached for
\* the camera
Consulted == IF c_pc = "scan" THEN {Key(idx)} ELSE {}

\* C24: the cameras of the configuration have ids that differ (d1, d2); the
\* entry a step of the evaluation of a camera reads for its scan, and every
\* entry it writes, is the entry of that camera and of no other camera of the
\* roster.
C24_EntryPerDevice ==
    [][ (InLoop /\ c_pc \notin {"save", "done"}) =>
          \A k \in Written \cup Consulted :
              /\ k = Key(idx)
              /\ \A j \in 1..Len(cameras) : j # idx => Key(j) # k
      ]_vars

\* C27: in the evaluation of a camera a scan is run only when the first
\* probe was unreachable and the cache held a MAC for the camera; at most one
\* scan and one second probe are run; and a second probe is run only after a
\* scan returned an address that is not the roster address.
C27_ScanAndReprobeGuarded ==
    InLoop =>
        \A i \in 1..Len(c_trace) :
            /\ c_trace[i].scans <= 1
            /\ c_trace[i].reprobes <= 1
            /\ c_trace[i].scans = 1 =>
                  /\ ~c_trace[i].first
                  /\ c_trace[i].before # {}
                  /\ \A e \in c_trace[i].before : e.mac # NoMac
            /\ c_trace[i].reprobes = 1 =>
                  /\ c_trace[i].scans = 1
                  /\ c_trace[i].found # NoIp
                  /\ c_trace[i].found # cameras[i].ip

\* in one cycle a camera was scanned for and probed again, another was
\* scanned for and not probed again
C27_Witness ==
    /\ c_pc = "done"
    /\ Len(c_trace) = 2
    /\ c_trace[1].scans = 1 /\ c_trace[1].reprobes = 1
    /\ c_trace[2].scans = 1 /\ c_trace[2].reprobes = 0

(***************************************************************************)
(* Termination.  One specification holds a scan and a cycle side by side, *)
(* each started from its own initial states, with the fairness the         *)
(* scheduling gives: the calling thread goes on whenever it can, a free    *)
(* worker thread takes the next work item, and every external command      *)
(* returns or times out.  The clock is not made to advance.                *)
(***************************************************************************)
\* a scan for MacA in a network where no host, or one host, has it
InitScanLive ==
    /\ ProbeIdle
    /\ p_is_windows = TRUE
    /\ CycleIdle
    /\ ResolveIdle
    /\ s_mac = MacA
    /\ s_timeout_sec \in {0, 1}
    /\ s_arp \in { f \in [Suffixes -> {NoMac, MacA}] :
                      Cardinality({ suffix \in Suffixes : f[suffix] = MacA }) <= 1 }
    /\ s_elapsed = 0
    /\ futures = [suffix \in Suffixes |-> "pending"]
    /\ s_result = [suffix \in Suffixes |-> NoIp]
    /\ s_queue = 1
    /\ s_yielded = {}
    /\ s_pc = "collect"
    /\ s_cancel = 1
    /\ s_ret = NoIp
    /\ s_resolved = {}
    /\ s_late = {}

\* a cycle with MAC tracking on
InitCycleLive ==
    /\ InitCycle
    /\ p_is_windows
    /\ mac_tracking_enabled
    /\ ~speed_enabled
    /\ "last_speedtest" \notin DOMAIN store

InitLive == InitScanLive \/ InitCycleLive

NextLive == NextScan \/ NextCycleStep

\* the thread that called scan_network_for_mac
ScanCaller == Collect \/ CancelNext \/ CollectEnd \/ Shutdown

\* the thread that runs run_once
CycleThread ==
    \/ LoadState \/ Speedtest \/ ProbeCamera \/ ResolveMac \/ ScanNetwork
    \/ Reprobe \/ EmitReport \/ SaveCache

FairLive ==
    /\ WF_vars(ScanCaller)
    /\ WF_vars(WorkerSkip \/ WorkerStart)
    /\ WF_vars(WorkerFinish)
    /\ WF_vars(CycleThread)

SpecLive == InitLive /\ [][NextLive]_vars /\ FairLive

\* C21: every scan returns, whether or not a host has the MAC looked for,
\* and a cycle that has started a scan for a camera goes on to the end of
\* its loop over the cameras with a report for each.
C21_ScanAndCycleTerminate ==
    /\ (s_pc = "collect") ~> (s_pc = "done")
    /\ (c_pc = "scan") ~> (c_pc = "done" /\ Len(cam_reports) = Len(cameras))

\* a scan has returned None after every host was asked and none had the MAC
C21_Witness ==
    /\ s_pc = "done"
    /\ s_ret = NoIp
    /\ s_resolved = Suffixes
    /\ \A suffix \in Suffixes : ~Matches(suffix)

====
